---- MODULE Spec2Model ----
(***************************************************************************)
(* DealSense-AI: the job registry of api/routes/deals.py (active_jobs, the *)
(* worker run_deal_search_sync, cancel_job, clear_all_results) and the log *)
(* streaming of api/routes/websocket_handler.py (ConnectionManager, the    *)
(* WebSocketLogHandler and the queue consumer process_log_queue).          *)
(*                                                                         *)
(* Two threads of control exist.  The asyncio event loop runs the request  *)
(* handlers and the consumer; a handler is atomic up to its next await.    *)
(* run_deal_search_sync runs on an executor thread, truly concurrent with  *)
(* the loop, so each of its accesses to active_jobs is a step of its own   *)
(* and may fall between two accesses of a handler that has no await.       *)
(***************************************************************************)
EXTENDS Integers, Sequences, FiniteSets, TLC

\* ---------------------------------------------------------------- bounds
MaxJobs == 2
MaxWorkers == 1
MaxResults == 1
MaxCats == 4
MaxTime == 1
MaxConns == 2
MaxEvents == 2
LiveJobs == 1
StreamJobs == 1
MaxReplies == 2
MaxPushes == 2

\* Category counts accepted by CategoryRequest (min_items, max_items).
MinItems == 1
MaxItems == 3

JobIds == 1..MaxJobs
Conns == 1..MaxConns
\* str(e) of the exception the black-box search raises; it may be empty.
ErrMsgs == {"", "boom"}
\* dict key absent / None
NoTime == 0 - 1
NoCount == 0 - 1
None == "None"
NoExc == "no-exception"
KeyErrorMsg == "KeyError"
Terminal == {"completed", "error", "cancelled"}

VARIABLES
    active_jobs,        \* deals.py: job_id -> job dict
    wpc,                \* per job: the line run_deal_search_sync is about to run
    wloc,               \* per job: the worker's locals (new_opportunities, e)
    now,                \* what datetime.now() returns
    next_job,           \* number of job ids generated so far
    cancel,             \* cancel_job between its status test and its write
    resp,               \* the last HTTP response
    framework_ok,       \* app_state["deal_framework"] is not None
    active_connections, \* ConnectionManager.active_connections
    client_state,       \* per connection: websocket.client_state
    peer_gone,          \* connections whose transport fails on send
    log_queue,          \* ConnectionManager.log_queue
    n_enq,              \* number of events put on log_queue so far
    logger_setup,       \* ConnectionManager.logger_setup
    log_handler,        \* ConnectionManager.log_handler is not None
    consumer,           \* the process_log_queue tasks and their broadcast pass
    delivered,          \* per connection: the messages written to it, in order
    lost,               \* ids of events whose broadcast pass was aborted
    status_task,        \* per connection: where its websocket_status_endpoint is
    emit_exit           \* how the last call of WebSocketLogHandler.emit ended

jobvars == <<active_jobs, wpc, wloc, now, next_job, cancel, resp, framework_ok>>
wsvars == <<active_connections, client_state, peer_gone, log_queue, n_enq,
            logger_setup, log_handler, consumer, delivered, lost, status_task,
            emit_exit>>
vars == <<jobvars, wsvars>>

\* ------------------------------------------------------------- helpers
Present(j) == j \in DOMAIN active_jobs

NoResp == [op |-> "none", code |-> 0, status |-> "", count |-> 0]

\* The response a handler returns (status code, and the status or count its
\* message states).
Respond(op, code, status, count) ==
    resp' = [op |-> op, code |-> code, status |-> status, count |-> count]

LoopFree == cancel.pc = "idle"

\* table_for that loses the last opportunity.
table_for_short(opps) == [i \in 1..(Len(opps) - 1) |-> [row |-> opps[i]]]

\* table_for: one table row per opportunity, in order.
table_for(opps) == [i \in 1..Len(opps) |-> [row |-> opps[i]]]

\* validate_categories_logic: the error message, or None.
validate_categories_logic(n) ==
    IF n = 0 THEN "select at least one"
    ELSE IF n > MaxItems THEN "up to 3 only"
    ELSE None

\* CategoryRequest: the request body validation that runs before the handler.
CategoryRequestValid(n) == n >= MinItems /\ n <= MaxItems

\* A filter that skips uvicorn's records only.
emit_skips_uvicorn_only(rec) == rec.uvicorn

\* WebSocketLogHandler.emit's filter: TRUE when the record is skipped.
emit_skips(rec) == rec.uvicorn \/ rec.has_ws

\* WebSocketLogHandler.emit: one event on the queue per record that passes
\* the filter.
emit(queue, rec) ==
    IF emit_skips(rec)
    THEN queue
    ELSE Append(queue, [id |-> n_enq + 1, kind |-> rec.kind, job |-> rec.job])

\* A root logger that hands every record to the handler twice.
root_logger_twice(queue, rec) ==
    IF log_handler THEN emit(emit(queue, rec), rec) ELSE queue

\* The root logger hands the record to the handler once it is installed.
root_logger(queue, rec) == IF log_handler THEN emit(queue, rec) ELSE queue

\* The "Agents" logger: setup_logging adds the handler to it (line 131) and
\* to the root logger (line 136); a record logged through it is handed to its
\* own handlers and then, propagating, to those of the root logger.
agents_logger(queue, rec) ==
    IF log_handler THEN root_logger(emit(queue, rec), rec) ELSE root_logger(queue, rec)

\* What can go wrong inside emit: record.getMessage() raises (line 82),
\* self.format raises (85), reformat raises ImportError or something else
\* (110), building or serialising the WebSocketMessage raises (89-101).
Faults == {"none", "getMessage", "format", "reformat_ImportError",
           "reformat_Exception", "serialize"}

\* An emit without its try block: the exception leaves the handler.
emit_try_unguarded(queue, rec, fault) ==
    IF rec.uvicorn THEN [queue |-> queue, exit |-> "returned"]
    ELSE IF fault = "getMessage" THEN [queue |-> queue, exit |-> "raised"]
    ELSE IF emit_skips(rec) THEN [queue |-> queue, exit |-> "returned"]
    ELSE IF fault \in {"format", "serialize"} THEN [queue |-> queue, exit |-> "raised"]
    ELSE [queue |-> emit(queue, rec), exit |-> "returned"]

\* WebSocketLogHandler.emit with its try block (lines 80-105): the queue it
\* leaves and how it ends.  The name test comes first and short-circuits
\* getMessage; reformat_message falls back on ImportError (111-116) and
\* returns the message as it is on any other exception (117-118), so the
\* event is still enqueued; any other exception is caught on line 103 and
\* printed, before log_queue.put (101) has run.
emit_try(queue, rec, fault) ==
    IF rec.uvicorn THEN [queue |-> queue, exit |-> "returned"]
    ELSE IF fault = "getMessage" THEN [queue |-> queue, exit |-> "printed"]
    ELSE IF emit_skips(rec) THEN [queue |-> queue, exit |-> "returned"]
    ELSE IF fault \in {"format", "serialize"} THEN [queue |-> queue, exit |-> "printed"]
    ELSE [queue |-> emit(queue, rec), exit |-> "returned"]

\* logging.info / logging.error, called with the queue being `queue`.
logging_from(queue, rec) ==
    /\ log_queue' = root_logger(queue, rec)
    /\ n_enq' = n_enq + (Len(root_logger(queue, rec)) - Len(queue))

logging_call(rec) == logging_from(log_queue, rec)

WorkerRecord(kind, j) ==
    [kind |-> kind, job |-> j, uvicorn |-> FALSE, has_ws |-> FALSE]

wsframe == <<active_connections, client_state, peer_gone, logger_setup,
             log_handler, consumer, delivered, lost, status_task, emit_exit>>

\* ------------------------------------------------------------------ Init
Init ==
    /\ active_jobs = <<>>
    /\ wpc = [j \in JobIds |-> "none"]
    /\ wloc = [j \in JobIds |-> [opps |-> <<>>, exc |-> "no-exception"]]
    /\ now = 0
    /\ next_job = 0
    /\ cancel = [pc |-> "idle", job |-> 0]
    /\ resp = NoResp
    /\ framework_ok \in BOOLEAN
    /\ active_connections = {}
    /\ client_state = [c \in Conns |-> "CONNECTING"]
    /\ peer_gone = {}
    /\ log_queue = <<>>
    /\ n_enq = 0
    /\ logger_setup = FALSE
    /\ log_handler = FALSE
    /\ consumer = <<>>
    /\ delivered = [c \in Conns |-> <<>>]
    /\ lost = {}
    /\ status_task = [c \in Conns |-> "none"]
    /\ emit_exit = "none"

\* --------------------------------------------------------------- clock
Tick ==
    /\ now < MaxTime
    /\ now' = now + 1
    /\ UNCHANGED <<active_jobs, wpc, wloc, next_job, cancel, resp, framework_ok, wsvars>>

\* ------------------------------------------------- start_deal_search
NewJob(n) ==
    [status |-> "initializing", created_at |-> now,
     start_time |-> NoTime, end_time |-> NoTime, results |-> <<>>,
     total_count |-> NoCount, error |-> None]

\* A handler that inserts the job record before it validates the request.
start_deal_search_rejected_late(n) ==
    /\ LoopFree
    /\ ~CategoryRequestValid(n) \/ validate_categories_logic(n) # None
    /\ next_job < MaxJobs
    /\ next_job' = next_job + 1
    /\ active_jobs' = [k \in DOMAIN active_jobs \cup {next_job + 1} |->
                         IF k = next_job + 1 THEN NewJob(n) ELSE active_jobs[k]]
    /\ Respond("submit", IF ~CategoryRequestValid(n) THEN 422 ELSE 400, "", 0)
    /\ UNCHANGED <<wpc, wloc, now, cancel, framework_ok, wsvars>>

\* A request the body validation or validate_categories_logic rejects.
start_deal_search_rejected(n) ==
    /\ LoopFree
    /\ ~CategoryRequestValid(n) \/ validate_categories_logic(n) # None
    /\ Respond("submit", IF ~CategoryRequestValid(n) THEN 422 ELSE 400, "", 0)
    /\ UNCHANGED <<active_jobs, wpc, wloc, now, next_job, cancel, framework_ok, wsvars>>

\* A handler that awaits the work before it answers.
start_deal_search_awaiting(n, limit) ==
    /\ LoopFree
    /\ CategoryRequestValid(n)
    /\ validate_categories_logic(n) = None
    /\ next_job < limit
    /\ framework_ok
    /\ next_job' = next_job + 1
    /\ active_jobs' = [k \in DOMAIN active_jobs \cup {next_job + 1} |->
                         IF k = next_job + 1
                         THEN [NewJob(n) EXCEPT !.status = "completed",
                                                !.start_time = now,
                                                !.end_time = now,
                                                !.total_count = 0]
                         ELSE active_jobs[k]]
    /\ wpc' = [wpc EXCEPT ![next_job + 1] = "scheduled"]
    /\ Respond("submit", 200, "started", 0)
    /\ UNCHANGED <<wloc, now, cancel, framework_ok, wsvars>>

\* A handler that takes the id of the first job again instead of a fresh one.
start_deal_search_reusing_id(n, limit) ==
    /\ LoopFree
    /\ CategoryRequestValid(n)
    /\ validate_categories_logic(n) = None
    /\ next_job < limit
    /\ framework_ok
    /\ next_job' = next_job + 1
    /\ active_jobs' = [k \in DOMAIN active_jobs \cup {1} |->
                         IF k = 1 THEN NewJob(n) ELSE active_jobs[k]]
    /\ wpc' = [wpc EXCEPT ![1] = "scheduled"]
    /\ Respond("submit", 200, "started", 0)
    /\ UNCHANGED <<wloc, now, cancel, framework_ok, wsvars>>

start_deal_search(n, limit) ==
    /\ LoopFree
    /\ CategoryRequestValid(n)
    /\ validate_categories_logic(n) = None
    /\ next_job < limit
    /\ LET j == next_job + 1 IN
        /\ next_job' = j
        /\ active_jobs' = [k \in DOMAIN active_jobs \cup {j} |->
                             IF k = j THEN NewJob(n) ELSE active_jobs[k]]
        /\ IF framework_ok
           THEN /\ wpc' = [wpc EXCEPT ![j] = "scheduled"]
                /\ Respond("submit", 200, "started", 0)
           ELSE /\ wpc' = wpc
                /\ Respond("submit", 503, "", 0)
    /\ UNCHANGED <<wloc, now, cancel, framework_ok, wsvars>>

\* ------------------------------------------------ run_deal_search_sync
\* wloc keeps a local only while a later line still reads it.
NoLocals == [opps |-> <<>>, exc |-> NoExc]

wframe == <<now, next_job, cancel, resp, framework_ok>>

\* A write active_jobs[job_id][field] = value inside the try block.  When the
\* record is gone the subscript raises KeyError, control passes to the except
\* clause and its first statement, logging.error (line 74), runs: that call
\* touches no job state, so it is taken in the same step as the raise.
TryWrite(j, newrec, nextpc) ==
    IF Present(j)
    THEN /\ active_jobs' = [active_jobs EXCEPT ![j] = newrec]
         /\ wpc' = [wpc EXCEPT ![j] = nextpc]
         /\ wloc' = IF nextpc = "l69" THEN [wloc EXCEPT ![j] = NoLocals] ELSE wloc
         /\ UNCHANGED <<log_queue, n_enq>>
    ELSE /\ active_jobs' = active_jobs
         /\ wpc' = [wpc EXCEPT ![j] = "l75"]
         /\ wloc' = [wloc EXCEPT ![j].exc = KeyErrorMsg]
         /\ logging_call(WorkerRecord("error", j))

\* The same write inside the except clause: a KeyError there leaves the function.
ExceptWrite(j, newrec, nextpc) ==
    IF Present(j)
    THEN /\ active_jobs' = [active_jobs EXCEPT ![j] = newrec]
         /\ wpc' = [wpc EXCEPT ![j] = nextpc]
         /\ wloc' = IF nextpc = "returned" THEN [wloc EXCEPT ![j] = NoLocals] ELSE wloc
    ELSE /\ active_jobs' = active_jobs
         /\ wpc' = [wpc EXCEPT ![j] = "escaped"]
         /\ wloc' = wloc

\* The executor starts the function when one of its threads is free.
Running == {k \in JobIds : wpc[k] \notin {"none", "scheduled", "returned", "escaped"}}

sync_l58(j) ==
    /\ wpc[j] = "scheduled"
    /\ Cardinality(Running) < MaxWorkers
    /\ logging_call(WorkerRecord("start", j))
    /\ wpc' = [wpc EXCEPT ![j] = "l59"]
    /\ UNCHANGED <<active_jobs, wloc, wframe, wsframe>>

sync_l59(j) ==
    /\ wpc[j] = "l59"
    /\ TryWrite(j, [active_jobs[j] EXCEPT !.status = "running"], "l60")
    /\ UNCHANGED <<wframe, wsframe>>

sync_l60(j) ==
    /\ wpc[j] = "l60"
    /\ TryWrite(j, [active_jobs[j] EXCEPT !.start_time = now], "l63")
    /\ UNCHANGED <<wframe, wsframe>>

\* deal_framework.run: the search logs while it runs, ...
sync_l63_log(j) ==
    /\ wpc[j] = "l63"
    /\ n_enq < MaxEvents
    /\ logging_call(WorkerRecord("work", j))
    /\ UNCHANGED <<active_jobs, wpc, wloc, wframe, wsframe>>

\* ... returns its opportunities, ...
sync_l63_return(j, n) ==
    /\ wpc[j] = "l63"
    /\ wloc' = [wloc EXCEPT ![j].opps = [i \in 1..n |-> i]]
    /\ wpc' = [wpc EXCEPT ![j] = "l66"]
    /\ UNCHANGED <<active_jobs, wframe, wsvars>>

\* ... or raises, and the except clause logs the error (line 74).
sync_l63_raise(j, m) ==
    /\ wpc[j] = "l63"
    /\ wloc' = [wloc EXCEPT ![j].exc = m]
    /\ wpc' = [wpc EXCEPT ![j] = "l75"]
    /\ logging_call(WorkerRecord("error", j))
    /\ UNCHANGED <<active_jobs, wframe, wsframe>>

sync_l66(j) ==
    /\ wpc[j] = "l66"
    /\ TryWrite(j, [active_jobs[j] EXCEPT !.status = "completed"], "l67")
    /\ UNCHANGED <<wframe, wsframe>>

sync_l67(j) ==
    /\ wpc[j] = "l67"
    /\ TryWrite(j, [active_jobs[j] EXCEPT !.results = table_for(wloc[j].opps)], "l68")
    /\ UNCHANGED <<wframe, wsframe>>

sync_l68(j) ==
    /\ wpc[j] = "l68"
    /\ TryWrite(j, [active_jobs[j] EXCEPT !.total_count = Len(wloc[j].opps)], "l69")
    /\ UNCHANGED <<wframe, wsframe>>

\* line 69, and on success line 71: the closing logging.info, which touches
\* no job state and ends the function.
sync_l69(j) ==
    /\ wpc[j] = "l69"
    /\ IF Present(j)
       THEN /\ active_jobs' = [active_jobs EXCEPT ![j].end_time = now]
            /\ wpc' = [wpc EXCEPT ![j] = "returned"]
            /\ wloc' = wloc
            /\ logging_call(WorkerRecord("done", j))
       ELSE TryWrite(j, active_jobs, "l75")
    /\ UNCHANGED <<wframe, wsframe>>

sync_l75(j) ==
    /\ wpc[j] = "l75"
    /\ ExceptWrite(j, [active_jobs[j] EXCEPT !.status = "error"], "l76")
    /\ UNCHANGED <<wframe, wsvars>>

sync_l76(j) ==
    /\ wpc[j] = "l76"
    /\ ExceptWrite(j, [active_jobs[j] EXCEPT !.error = wloc[j].exc], "returned")
    /\ UNCHANGED <<wframe, wsvars>>

run_deal_search_sync(j) ==
    \/ sync_l58(j)
    \/ sync_l59(j)
    \/ sync_l60(j)
    \/ sync_l63_log(j)
    \/ \E n \in 0..MaxResults : sync_l63_return(j, n)
    \/ \E m \in ErrMsgs : sync_l63_raise(j, m)
    \/ sync_l66(j)
    \/ sync_l67(j)
    \/ sync_l68(j)
    \/ sync_l69(j)
    \/ sync_l75(j)
    \/ sync_l76(j)

\* ----------------------------------------------------------- cancel_job
cframe == <<wpc, wloc, now, next_job, framework_ok, wsvars>>

\* A cancel_job that creates a cancelled record for an id it does not know.
cancel_job_404_upsert(j) ==
    /\ LoopFree
    /\ ~Present(j)
    /\ active_jobs' = [k \in DOMAIN active_jobs \cup {j} |->
                         IF k = j THEN [NewJob(0) EXCEPT !.status = "cancelled"]
                         ELSE active_jobs[k]]
    /\ Respond("cancel", 404, "", 0)
    /\ UNCHANGED <<cancel, cframe>>

cancel_job_404(j) ==
    /\ LoopFree
    /\ ~Present(j)
    /\ Respond("cancel", 404, "", 0)
    /\ UNCHANGED <<active_jobs, cancel, cframe>>

\* cancel_job without the test of line 223: every job is cancellable.
cancel_job_l223_untested(j) ==
    /\ LoopFree
    /\ Present(j)
    /\ cancel' = [pc |-> "l224", job |-> j]
    /\ UNCHANGED <<active_jobs, resp, cframe>>

\* cancel_job with a test that also takes a job not yet started for running.
cancel_job_l223_not_started(j) ==
    /\ LoopFree
    /\ Present(j)
    /\ cancel' = [pc |-> IF active_jobs[j].status \in {"running", "initializing"}
                         THEN "l224" ELSE "l227",
                  job |-> j]
    /\ UNCHANGED <<active_jobs, resp, cframe>>

\* line 223: the test of job["status"]
cancel_job_l223(j) ==
    /\ LoopFree
    /\ Present(j)
    /\ cancel' = [pc |-> IF active_jobs[j].status = "running" THEN "l224" ELSE "l227",
                  job |-> j]
    /\ UNCHANGED <<active_jobs, resp, cframe>>

\* line 224: the write, made on the strength of the test
cancel_job_l224 ==
    /\ cancel.pc = "l224"
    /\ active_jobs' = [active_jobs EXCEPT ![cancel.job].status = "cancelled"]
    /\ Respond("cancel", 200, "cancelled", 0)
    /\ cancel' = [pc |-> "idle", job |-> 0]
    /\ UNCHANGED cframe

\* line 227: the message reads job["status"] again
cancel_job_l227 ==
    /\ cancel.pc = "l227"
    /\ Respond("cancel", 200, active_jobs[cancel.job].status, 0)
    /\ cancel' = [pc |-> "idle", job |-> 0]
    /\ UNCHANGED <<active_jobs, cframe>>

\* ---------------------------------------------------- clear_all_results
\* The list of line 266 without the cancelled jobs.
completed_jobs_finished_only ==
    {j \in DOMAIN active_jobs : active_jobs[j].status \in {"completed", "error"}}

completed_jobs == {j \in DOMAIN active_jobs : active_jobs[j].status \in Terminal}

clear_all_results ==
    /\ LoopFree
    /\ active_jobs' = [k \in DOMAIN active_jobs \ completed_jobs |-> active_jobs[k]]
    /\ Respond("clear", 200, "", Cardinality(completed_jobs))
    /\ UNCHANGED <<cancel, cframe>>

\* --------------------------------------------------- get_search_results
get_search_results(j) ==
    IF ~Present(j)
    THEN [code |-> 404, status |-> "", results |-> <<>>, error_message |-> None,
          total_count |-> 0]
    ELSE [code |-> 200,
          status |-> active_jobs[j].status,
          results |-> active_jobs[j].results,
          error_message |-> active_jobs[j].error,
          total_count |-> IF active_jobs[j].total_count = NoCount THEN 0
                          ELSE active_jobs[j].total_count]


\* ------------------------------------------------- ConnectionManager
\* Event-loop coroutines run only while no handler is in the middle of a
\* stretch without await (LoopFree).
Welcome == [id |-> 0, kind |-> "status", job |-> 0]

IdleTask == [pc |-> "idle", msg |-> Welcome, visited |-> {}, disconnected |-> {},
             size |-> 0, start |-> {}]

\* websocket.send_text: the frame is written when the call is made, and the
\* caller may then be suspended; the call raises when the peer is gone.
SendRaises(c) == c \in peer_gone

\* setup_logging: one handler and one consumer task, unless a handler exists.
setup_logging ==
    IF log_handler
    THEN UNCHANGED <<log_handler, consumer>>
    ELSE /\ log_handler' = TRUE
         /\ consumer' = Append(consumer, IdleTask)

\* A connect that sets logging up for every connection.
connect_setup_every_time ==
    /\ logger_setup' = TRUE
    /\ log_handler' = TRUE
    /\ consumer' = Append(consumer, IdleTask)

\* connect, lines 33-36: setup_logging on the first connection only.
connect_setup ==
    IF logger_setup
    THEN UNCHANGED <<logger_setup, log_handler, consumer>>
    ELSE setup_logging /\ logger_setup' = TRUE

\* A disconnect that puts back a connection it does not find.
disconnect_toggle(conns, c) == IF c \in conns THEN conns \ {c} ELSE conns \cup {c}

\* disconnect: set.discard
disconnect(conns, c) == conns \ {c}

\* The record of the logging.error call made when a send raises; its message
\* contains "WebSocket".
SendFailed == [kind |-> "app", job |-> 0, uvicorn |-> FALSE, has_ws |-> TRUE]

\* A send_personal_message that writes the message to every connection of the set.
send_to_all(conns, connected, c, msg) ==
    /\ delivered' = [b \in Conns |-> IF b \in conns THEN Append(delivered[b], msg)
                                      ELSE delivered[b]]
    /\ active_connections' = conns
    /\ UNCHANGED <<log_queue, n_enq>>

\* send_personal_message to connection c, the active set being conns and
\* `connected` telling whether c's client_state is CONNECTED: one send_text;
\* when it raises, the error is logged and c is detached.  The function
\* returns None on every path.
send_personal_message(conns, connected, c, msg) ==
    /\ delivered' = IF connected /\ ~SendRaises(c)
                    THEN [delivered EXCEPT ![c] = Append(@, msg)]
                    ELSE delivered
    /\ active_connections' = IF connected /\ SendRaises(c)
                             THEN disconnect(conns, c)
                             ELSE conns
    /\ IF connected /\ SendRaises(c)
       THEN logging_call(SendFailed)
       ELSE UNCHANGED <<log_queue, n_enq>>

\* What send_personal_message returns to its caller when send_text raised
\* and when it did not: the function has no return statement.
send_personal_message_returns(raised) == None

\* websocket_logs_endpoint up to its receive loop: manager.connect (accept,
\* add, setup_logging on the first connection) and the welcome message sent by
\* send_personal_message, which detaches the connection when the send raises.
websocket_logs_endpoint_connect(c) ==
    /\ LoopFree
    /\ client_state[c] = "CONNECTING"
    /\ \A b \in Conns : b < c => client_state[b] # "CONNECTING"
    /\ client_state' = [client_state EXCEPT ![c] = "CONNECTED"]
    /\ connect_setup
    /\ send_personal_message(active_connections \cup {c}, TRUE, c, Welcome)
    /\ UNCHANGED <<peer_gone, lost, status_task, emit_exit, jobvars>>

\* The peer closes or drops the connection: sends to it raise from now on.
peer_closes(c) ==
    /\ client_state[c] = "CONNECTED"
    /\ c \notin peer_gone
    /\ peer_gone' = peer_gone \cup {c}
    /\ UNCHANGED <<active_connections, client_state, log_queue, n_enq,
                   logger_setup, log_handler, consumer, delivered, lost, status_task, emit_exit, jobvars>>

\* receive_text raises WebSocketDisconnect: the loop breaks and the finally
\* clause calls manager.disconnect.
websocket_logs_endpoint_disconnect(c) ==
    /\ LoopFree
    /\ client_state[c] = "CONNECTED"
    /\ c \in peer_gone
    /\ client_state' = [client_state EXCEPT ![c] = "DISCONNECTED"]
    /\ active_connections' = disconnect(active_connections, c)
    /\ UNCHANGED <<peer_gone, log_queue, n_enq, logger_setup, log_handler,
                   consumer, delivered, lost, status_task, emit_exit, jobvars>>

\* The frames a client sends and the reply to each (lines 183-198, and the
\* error reply to a frame that is not JSON, lines 202-208).
Frames == {"ping", "request_history", "not-json"}

Reply(frame) ==
    [id |-> 0,
     kind |-> CASE frame = "ping" -> "pong"
                [] frame = "request_history" -> "history"
                [] OTHER -> "error",
     job |-> 0]

\* The replies written so far to the connections of cs, counted to bound the
\* frames the clients send.
RECURSIVE RepliesSent(_)
RepliesSent(cs) ==
    IF cs = {} THEN 0
    ELSE LET c == CHOOSE x \in cs : TRUE
         IN Cardinality({i \in DOMAIN delivered[c] :
                           delivered[c][i].kind \in {"pong", "history", "error"}})
              + RepliesSent(cs \ {c})

\* receive_text returns a frame of the client and the endpoint answers it.
websocket_logs_endpoint_receive(c, frame) ==
    /\ LoopFree
    /\ client_state[c] = "CONNECTED"
    /\ RepliesSent(Conns) < MaxReplies
    /\ send_personal_message(active_connections, TRUE, c, Reply(frame))
    /\ UNCHANGED <<client_state, peer_gone, logger_setup, log_handler, consumer,
                   lost, status_task, emit_exit, jobvars>>

\* Some thread logs a record through the root logger.
LogRecords ==
    {[kind |-> "app", job |-> 0, uvicorn |-> FALSE, has_ws |-> FALSE],
     [kind |-> "app", job |-> 0, uvicorn |-> TRUE, has_ws |-> FALSE],
     [kind |-> "app", job |-> 0, uvicorn |-> FALSE, has_ws |-> TRUE]}

log_record(rec) ==
    /\ n_enq < MaxEvents
    /\ logging_call(rec)
    /\ UNCHANGED <<wsframe, jobvars>>

\* Some thread logs a record through logging.getLogger("Agents").
log_record_agents(rec) ==
    /\ n_enq < MaxEvents
    /\ log_queue' = agents_logger(log_queue, rec)
    /\ n_enq' = n_enq + (Len(agents_logger(log_queue, rec)) - Len(log_queue))
    /\ UNCHANGED <<wsframe, jobvars>>

\* Some thread logs a record through the root logger and something goes
\* wrong, or nothing does, inside the handler.
log_record_faulty(rec, fault) ==
    /\ n_enq < MaxEvents
    /\ log_handler
    /\ log_queue' = emit_try(log_queue, rec, fault).queue
    /\ n_enq' = n_enq + (Len(emit_try(log_queue, rec, fault).queue) - Len(log_queue))
    /\ emit_exit' = emit_try(log_queue, rec, fault).exit
    /\ UNCHANGED <<active_connections, client_state, peer_gone, logger_setup,
                   log_handler, consumer, delivered, lost, status_task, jobvars>>

\* ------------------------------------------ websocket_status_endpoint
\* The periodic status message (type "status", lines 236-243).
StatusUpdate == [id |-> 0, kind |-> "status", job |-> 0]

\* manager.connect (line 231): accept, add, setup_logging on the first
\* connection; the loop is entered.
websocket_status_endpoint_connect(c) ==
    /\ LoopFree
    /\ client_state[c] = "CONNECTING"
    /\ \A b \in Conns : b < c => client_state[b] # "CONNECTING"
    /\ client_state' = [client_state EXCEPT ![c] = "CONNECTED"]
    /\ connect_setup
    /\ active_connections' = active_connections \cup {c}
    /\ status_task' = [status_task EXCEPT ![c] = "push"]
    /\ UNCHANGED <<peer_gone, log_queue, n_enq, delivered, lost, emit_exit, jobvars>>

\* Lines 236-247: the status message goes out through send_personal_message,
\* which returns normally whether the send worked, raised or was not tried;
\* then the loop sleeps.
websocket_status_endpoint_push(c) ==
    /\ LoopFree
    /\ status_task[c] = "push"
    /\ c \in peer_gone \/ Len(delivered[c]) < MaxPushes
    /\ send_personal_message(active_connections, client_state[c] = "CONNECTED",
                             c, StatusUpdate)
    /\ status_task' = [status_task EXCEPT ![c] = "sleep"]
    /\ UNCHANGED <<client_state, peer_gone, logger_setup, log_handler, consumer,
                   lost, emit_exit, jobvars>>

\* asyncio.sleep(30) returns and the loop goes round.
websocket_status_endpoint_wake(c) ==
    /\ status_task[c] = "sleep"
    /\ status_task' = [status_task EXCEPT ![c] = "push"]
    /\ UNCHANGED <<active_connections, client_state, peer_gone, log_queue, n_enq,
                   logger_setup, log_handler, consumer, delivered, lost, emit_exit, jobvars>>

\* The server cancels the task (shutdown): CancelledError leaves the sleep,
\* is no Exception, and the finally clause detaches the connection.
websocket_status_endpoint_cancelled(c) ==
    /\ status_task[c] = "sleep"
    /\ status_task' = [status_task EXCEPT ![c] = "exited"]
    /\ active_connections' = disconnect(active_connections, c)
    /\ UNCHANGED <<client_state, peer_gone, log_queue, n_enq, logger_setup,
                   log_handler, consumer, delivered, lost, emit_exit, jobvars>>

\* ------------------------------------------------------------ broadcast
\* The for loop of broadcast runs over the live set.  A set iterator raises
\* RuntimeError when the set's size differs from the size at its creation;
\* when a removal and an addition left the size the same, a connection added
\* meanwhile may or may not be visited.
ToVisit(task) == active_connections \ task.visited

\* The turn of connection c: the state check, the send, and the except
\* clause that logs the failure and notes the connection.
broadcast_send(t, task, queue, c) ==
    /\ IF client_state[c] = "CONNECTED" /\ ~SendRaises(c)
       THEN /\ delivered' = [delivered EXCEPT ![c] = Append(@, task.msg)]
            /\ consumer' = [consumer EXCEPT ![t] =
                              [task EXCEPT !.visited = @ \cup {c}]]
       ELSE /\ delivered' = delivered
            /\ consumer' = [consumer EXCEPT ![t] =
                              [task EXCEPT !.visited = @ \cup {c},
                                           !.disconnected = @ \cup {c}]]
    /\ IF client_state[c] = "CONNECTED" /\ SendRaises(c)
       THEN logging_from(queue, SendFailed)
       ELSE log_queue' = queue /\ n_enq' = n_enq
    /\ UNCHANGED <<active_connections, lost>>

\* An end of the loop that forgets the noted connections.
broadcast_end_keeps_noted(t, task, queue) ==
    /\ consumer' = [consumer EXCEPT ![t] = IdleTask]
    /\ log_queue' = queue
    /\ UNCHANGED <<active_connections, delivered, lost, n_enq>>

\* The end of the loop: the noted connections are detached.
broadcast_end(t, task, queue) ==
    /\ active_connections' = active_connections \ task.disconnected
    /\ consumer' = [consumer EXCEPT ![t] = IdleTask]
    /\ log_queue' = queue
    /\ UNCHANGED <<delivered, lost, n_enq>>

\* A consumer whose loop ends with the exception of its broadcast.
broadcast_aborted_ends_loop(t, task, queue) ==
    /\ consumer' = [consumer EXCEPT ![t] = [IdleTask EXCEPT !.pc = "ended"]]
    /\ lost' = lost \cup {task.msg.id}
    /\ log_queue' = queue
    /\ UNCHANGED <<active_connections, delivered, n_enq>>

\* RuntimeError leaves broadcast; process_log_queue catches it, prints, and
\* sleeps: the event and the noted connections are forgotten.
broadcast_aborted(t, task, queue) ==
    /\ consumer' = [consumer EXCEPT ![t] = IdleTask]
    /\ lost' = lost \cup {task.msg.id}
    /\ log_queue' = queue
    /\ UNCHANGED <<active_connections, delivered, n_enq>>

\* One turn of the loop from its head.
broadcast_turn(t, task, queue) ==
    IF Cardinality(active_connections) # task.size
    THEN broadcast_aborted(t, task, queue)
    ELSE \/ /\ ToVisit(task) \cap task.start = {}
            /\ broadcast_end(t, task, queue)
         \/ \E c \in ToVisit(task) : broadcast_send(t, task, queue, c)

\* A queue that hands out its newest item.
get_nowait_newest(queue) ==
    [item |-> queue[Len(queue)], rest |-> SubSeq(queue, 1, Len(queue) - 1)]

\* queue.Queue.get_nowait: the oldest item, and the queue without it.
get_nowait(queue) == [item |-> Head(queue), rest |-> Tail(queue)]

\* process_log_queue, lines 145-147: the queue is not empty, its head is taken
\* and broadcast runs up to its first suspension.
process_log_queue_get(t) ==
    /\ LoopFree
    /\ consumer[t].pc = "idle"
    /\ log_queue # <<>>
    /\ broadcast_turn(t, [pc |-> "pass", msg |-> get_nowait(log_queue).item,
                          visited |-> {}, disconnected |-> {},
                          size |-> Cardinality(active_connections),
                          start |-> active_connections],
                      get_nowait(log_queue).rest)
    /\ UNCHANGED <<client_state, peer_gone, logger_setup, log_handler, status_task, emit_exit, jobvars>>

\* broadcast resumes after the send it was suspended in.
broadcast_resume(t) ==
    /\ LoopFree
    /\ consumer[t].pc = "pass"
    /\ broadcast_turn(t, consumer[t], log_queue)
    /\ UNCHANGED <<client_state, peer_gone, logger_setup, log_handler, status_task, emit_exit, jobvars>>

process_log_queue(t) == process_log_queue_get(t) \/ broadcast_resume(t)

\* ------------------------------------------------------- specifications
JobsNext(limit) ==
    \/ \E n \in 0..MaxCats : start_deal_search_rejected(n)
    \/ \E n \in 0..MaxCats : start_deal_search(n, limit)
    \/ \E j \in JobIds : run_deal_search_sync(j)
    \/ \E j \in JobIds : cancel_job_404(j)
    \/ \E j \in JobIds : cancel_job_l223(j)
    \/ cancel_job_l224
    \/ cancel_job_l227
    \/ clear_all_results

Next ==
    JobsNext(MaxJobs)

Spec == Init /\ [][Next]_vars

\* The log stream alone: connections come and go, threads log records, the
\* consumer broadcasts.
StreamNext ==
    \/ \E c \in Conns : websocket_logs_endpoint_connect(c)
    \/ \E c \in Conns : peer_closes(c)
    \/ \E c \in Conns : websocket_logs_endpoint_disconnect(c)
    \/ \E rec \in LogRecords : log_record(rec)
    \/ \E t \in 1..Len(consumer) : process_log_queue_get(t)
    \/ \E t \in 1..Len(consumer) : broadcast_resume(t)

StreamSpec == Init /\ [][StreamNext]_vars

\* Observers and the frames they send.
ReplyNext ==
    \/ \E c \in Conns : websocket_logs_endpoint_connect(c)
    \/ \E c \in Conns : peer_closes(c)
    \/ \E c \in Conns : websocket_logs_endpoint_disconnect(c)
    \/ \E c \in Conns : \E frame \in Frames : websocket_logs_endpoint_receive(c, frame)

ReplySpec == Init /\ [][ReplyNext]_vars

\* The log stream under a scheduler that lets the consumer task run: its
\* sleeps end, and a send it awaits returns or raises.
StreamFairSpec ==
    /\ Init
    /\ [][StreamNext]_vars
    /\ WF_vars(\E t \in 1..Len(consumer) : process_log_queue(t))

\* Observers and records logged through the root logger and through the
\* "Agents" logger.
LoggerNext ==
    \/ \E c \in Conns : websocket_logs_endpoint_connect(c)
    \/ \E rec \in LogRecords : log_record(rec)
    \/ \E rec \in LogRecords : log_record_agents(rec)
    \/ \E t \in 1..Len(consumer) : process_log_queue_get(t)
    \/ \E t \in 1..Len(consumer) : broadcast_resume(t)

LoggerSpec == Init /\ [][LoggerNext]_vars

\* Observers and records whose handling fails inside the handler.
InterceptNext ==
    \/ \E c \in Conns : websocket_logs_endpoint_connect(c)
    \/ \E rec \in LogRecords : \E fault \in Faults : log_record_faulty(rec, fault)
    \/ \E t \in 1..Len(consumer) : process_log_queue_get(t)
    \/ \E t \in 1..Len(consumer) : broadcast_resume(t)

InterceptSpec == Init /\ [][InterceptNext]_vars

\* The log stream with the pings of its clients: sends fail in the replies
\* and in the broadcast.
FeedbackConns == 1..(MaxConns - 1)

FeedbackNext ==
    \/ \E c \in FeedbackConns : websocket_logs_endpoint_connect(c)
    \/ \E c \in FeedbackConns : peer_closes(c)
    \/ \E c \in FeedbackConns : websocket_logs_endpoint_disconnect(c)
    \/ \E c \in FeedbackConns : websocket_logs_endpoint_receive(c, "ping")
    \/ \E rec \in LogRecords : log_record(rec)
    \/ \E t \in 1..Len(consumer) : process_log_queue_get(t)
    \/ \E t \in 1..Len(consumer) : broadcast_resume(t)

FeedbackSpec == Init /\ [][FeedbackNext]_vars

\* Status subscribers.  The event loop resumes a coroutine whose await has
\* completed, so a loop that can push or wake eventually does; nothing
\* obliges the server to cancel the task.
StatusNext ==
    \/ \E c \in Conns : websocket_status_endpoint_connect(c)
    \/ \E c \in Conns : peer_closes(c)
    \/ \E c \in Conns : websocket_status_endpoint_push(c)
    \/ \E c \in Conns : websocket_status_endpoint_wake(c)
    \/ \E c \in Conns : websocket_status_endpoint_cancelled(c)

StatusSpec ==
    /\ Init
    /\ [][StatusNext]_vars
    /\ \A c \in Conns : WF_vars(websocket_status_endpoint_push(c))
    /\ \A c \in Conns : WF_vars(websocket_status_endpoint_wake(c))

\* Observers of the log stream while jobs are submitted and run.
ObserverNext ==
    \/ \E c \in Conns : websocket_logs_endpoint_connect(c)
    \/ \E c \in Conns : peer_closes(c)
    \/ \E c \in Conns : websocket_logs_endpoint_disconnect(c)
    \/ \E n \in 0..MaxCats : start_deal_search(n, StreamJobs)
    \/ \E j \in JobIds : run_deal_search_sync(j)
    \/ \E t \in 1..Len(consumer) : process_log_queue_get(t)
    \/ \E t \in 1..Len(consumer) : broadcast_resume(t)

ObserverSpec == Init /\ [][ObserverNext]_vars

\* One job under a moving clock.  The executor thread is scheduled by the
\* operating system and the event loop resumes a handler it has started, so
\* a worker that can take a step, and a cancel_job past its test, eventually do.
LiveNext ==
    \/ JobsNext(LiveJobs)
    \/ Tick

FairSpec ==
    /\ Init
    /\ [][LiveNext]_vars
    /\ \A j \in JobIds : WF_vars(run_deal_search_sync(j))
    /\ WF_vars(cancel_job_l224)
    /\ WF_vars(cancel_job_l227)

\* =============================================================== claims
StatusOf(j) == active_jobs[j].status

\* The transitions the state machine of the specification lists.
ListedEdges ==
    {<<"initializing", "running">>, <<"running", "completed">>,
     <<"running", "error">>, <<"running", "cancelled">>}

\* The transitions between terminal states the code also makes: the worker's
\* outcome written over a cancel, and a cancel written over the outcome when
\* its test of line 223 ran before the worker's write.
TerminalEdges ==
    {<<"cancelled", "completed">>, <<"cancelled", "error">>,
     <<"completed", "cancelled">>, <<"error", "cancelled">>}

StatusStepsWithin(edges) ==
    \A j \in JobIds :
        (j \in DOMAIN active_jobs /\ j \in DOMAIN active_jobs')
            => \/ active_jobs'[j].status = active_jobs[j].status
               \/ <<active_jobs[j].status, active_jobs'[j].status>> \in edges

\* A record leaves the registry only in a terminal state, and never comes back.
RemovalOnlyOfTerminal ==
    \A j \in JobIds :
        /\ (j \in DOMAIN active_jobs /\ j \notin DOMAIN active_jobs')
              => active_jobs[j].status \in Terminal
        /\ (j \in DOMAIN active_jobs' /\ j \notin DOMAIN active_jobs)
              => j = next_job + 1

C4_ResultsAndErrorMatchStatus ==
    \A j \in DOMAIN active_jobs :
        /\ active_jobs[j].results # <<>> => active_jobs[j].status = "completed"
        /\ active_jobs[j].error # None => active_jobs[j].status = "error"

\* C5: no exception leaves run_deal_search_sync, also when the job's record
\* has been removed from the registry before or during its bookkeeping.
C5_NoExceptionEscapes ==
    \A j \in JobIds : wpc[j] # "escaped"

\* C9: clear_all_results removes exactly the jobs whose status is completed,
\* error or cancelled, leaves every other record as it was, reports the number
\* it removed, and leaves nothing for a second call to remove.
C9_ClearRemovesExactlyTerminal ==
    [][clear_all_results =>
        LET gone == DOMAIN active_jobs \ DOMAIN active_jobs' IN
        /\ gone = {j \in DOMAIN active_jobs : active_jobs[j].status \in Terminal}
        /\ DOMAIN active_jobs' \subseteq DOMAIN active_jobs
        /\ \A j \in DOMAIN active_jobs' :
              /\ active_jobs'[j] = active_jobs[j]
              /\ active_jobs'[j].status \in {"initializing", "running"}
        /\ resp'.op = "clear"
        /\ resp'.count = Cardinality(gone)
        /\ {j \in DOMAIN active_jobs' : active_jobs'[j].status \in Terminal} = {}
    ]_vars

\* A clear has removed the first job and left the second, which is running.
C9_Witness ==
    /\ resp.op = "clear"
    /\ resp.count = 1
    /\ next_job = 2
    /\ ~Present(1)
    /\ Present(2)
    /\ StatusOf(2) = "running"

GoodCompleted(j) ==
    /\ get_search_results(j).code = 200
    /\ get_search_results(j).status = "completed"
    /\ get_search_results(j).total_count = Len(get_search_results(j).results)
    /\ active_jobs[j].start_time # NoTime
    /\ active_jobs[j].end_time # NoTime
    /\ active_jobs[j].created_at <= active_jobs[j].start_time
    /\ active_jobs[j].start_time <= active_jobs[j].end_time

\* deal_framework.run has returned and line 66 is next.
WorkSucceeded(j) == wpc[j] = "l66"

\* A cancel request has found the job running: its write is done or pending.
CancelHit(j) ==
    /\ Present(j)
    /\ \/ StatusOf(j) = "cancelled"
       \/ cancel.pc = "l224" /\ cancel.job = j

C3_RaisedWorkEndsAsError ==
    \A j \in JobIds :
        /\ wpc[j] = "escaped" => wloc[j].exc \notin ErrMsgs
        /\ (wpc[j] = "returned" /\ Present(j) /\ active_jobs[j].error # None)
              => /\ get_search_results(j).status = "error"
                 /\ get_search_results(j).error_message # ""
                 /\ get_search_results(j).results = <<>>

\* ---------------------------------------------------------------- C6
IsLog(m) == m.kind \notin {"status", "pong", "history", "error"}

InPass == {t \in 1..Len(consumer) : consumer[t].pc = "pass"}

\* C6: events reach every observer in the order they were enqueued -- the log
\* events written to one connection carry strictly increasing enqueue numbers,
\* and everything still queued was enqueued later than anything written -- and
\* the consumer broadcasts one event at a time: at most one pass is in
\* progress, and while the pass of an event is in progress no event enqueued
\* after it has been written to any connection.
C6_BroadcastInEnqueueOrder ==
    /\ \A c \in Conns : \A i, k \in DOMAIN delivered[c] :
          (i < k /\ IsLog(delivered[c][i]) /\ IsLog(delivered[c][k]))
             => delivered[c][i].id < delivered[c][k].id
    /\ \A c \in Conns : \A i \in DOMAIN delivered[c] : \A k \in DOMAIN log_queue :
          delivered[c][i].id < log_queue[k].id
    /\ \A i, k \in DOMAIN log_queue : i < k => log_queue[i].id < log_queue[k].id
    /\ Cardinality(InPass) <= 1
    /\ \A t \in InPass :
          /\ \A k \in DOMAIN log_queue : consumer[t].msg.id < log_queue[k].id
          /\ \A c \in Conns : \A i \in DOMAIN delivered[c] :
                delivered[c][i].id <= consumer[t].msg.id

\* Two events were enqueued while another was waiting, and one observer has
\* been sent both.
C6_Witness ==
    \E c \in Conns :
        /\ Len(delivered[c]) >= 3
        /\ delivered[c][2].id = 1
        /\ delivered[c][3].id = 2
        /\ \E b \in Conns \ {c} : Len(delivered[b]) >= 2

\* ---------------------------------------------------------------- C7
\* C7: when a broadcast pass in which a send failed is over, every other
\* connection the pass started with, whose peer is there, has been sent the
\* event, the connection whose send failed is detached, and no other
\* connection has been detached by the pass.
C7_FailedSendDetachesOnlyThatConnection ==
    [][\A t \in 1..Len(consumer) :
          (/\ consumer[t].pc = "pass"
           /\ consumer'[t].pc = "idle"
           /\ consumer[t].disconnected # {})
          => /\ \A c \in consumer[t].start \ peer_gone :
                   \E i \in DOMAIN delivered'[c] : delivered'[c][i] = consumer[t].msg
             /\ consumer[t].disconnected \cap active_connections' = {}
             /\ active_connections \ active_connections' \subseteq consumer[t].disconnected
      ]_vars

\* ---------------------------------------------------------------- C8
Quiet == log_queue = <<>> /\ InPass = {}

TimesSent(c, id) == Cardinality({i \in DOMAIN delivered[c] : delivered[c][i].id = id})

\* C8: the first message an observer is sent is the status event of its
\* connect and no later one is a status event; no event is sent to it twice;
\* and when the only observer is still attached and the consumer has nothing
\* left to do, every event logged since it attached -- the worker's own
\* messages and the message the work logged -- has been sent to it exactly
\* once.
C8_StatusFirstThenEachMessageOnce ==
    /\ \A c \in Conns : \A i \in DOMAIN delivered[c] :
          (i = 1) <=> (delivered[c][i] = Welcome)
    /\ \A c \in Conns : \A id \in 1..n_enq : TimesSent(c, id) <= 1
    /\ (/\ Quiet
        /\ 1 \in active_connections
        /\ \A b \in Conns \ {1} : client_state[b] = "CONNECTING")
       => \A id \in 1..n_enq : TimesSent(1, id) = 1

\* The observer attached, a job was submitted, its work logged one message
\* and returned, and the observer has been sent the status event and then the
\* worker's start message, the work's message and the worker's last message.
C8_Witness ==
    /\ Quiet
    /\ 1 \in active_connections
    /\ \A b \in Conns \ {1} : client_state[b] = "CONNECTING"
    /\ Len(delivered[1]) = 4
    /\ delivered[1][1] = Welcome
    /\ delivered[1][3].kind = "work"
    /\ \E j \in JobIds : Present(j) /\ active_jobs[j].status = "completed"

\* --------------------------------------------------------------- C11
\* The lines of run_deal_search_sync that write to the job record, and the
\* line each is followed by when its write is made.
NextLine ==
    [l59 |-> "l60", l60 |-> "l63", l66 |-> "l67", l67 |-> "l68", l68 |-> "l69",
     l69 |-> "returned", l75 |-> "l76", l76 |-> "returned"]

\* C11: a cancel request never stops or skips the worker -- no step of
\* cancel_job changes a worker's line or locals -- and after it the worker
\* still runs to the end and writes its outcome: every bookkeeping line of a
\* started worker is followed by the next line of its path, never by the
\* except clause or by an exception that leaves the function.
C11_CancelNeverStopsOrSkipsWorker ==
    [][/\ (cancel' # cancel) => (wpc' = wpc /\ wloc' = wloc)
       /\ \A j \in JobIds :
            (wpc[j] \in DOMAIN NextLine /\ wpc'[j] # wpc[j])
               => /\ wpc'[j] = NextLine[wpc[j]]
                  /\ j \in DOMAIN active_jobs'
      ]_vars

\* --------------------------------------------------------------- C12
\* C12: a submission with no category or with more than three is answered
\* with a validation error (422 from the request model, 400 from
\* validate_categories_logic) and changes nothing: no job record is created,
\* no job id is used and no worker is scheduled; and no step that creates a
\* job is the step of such a submission.
C12_BadSelectionRejectedBeforeJob ==
    [][\A n \in 0..MaxCats :
          (n < MinItems \/ n > MaxItems)
             => /\ ~start_deal_search(n, MaxJobs)
                /\ start_deal_search_rejected(n)
                     => /\ resp'.op = "submit"
                        /\ resp'.code \in {400, 422}
                        /\ active_jobs' = active_jobs
                        /\ next_job' = next_job
                        /\ wpc' = wpc
      ]_vars

\* A submission has been rejected while the registry held a running job.
C12_Witness ==
    /\ resp.op = "submit"
    /\ resp.code = 422
    /\ next_job = 1
    /\ Present(1)
    /\ StatusOf(1) = "running"

\* --------------------------------------------------------------- C13
\* The worker of job j has been scheduled and has not yet written anything.
NotYetRun(j) == wpc[j] \in {"scheduled", "l59"}

\* The worker of job j has not yet come back from the work.
WorkNotDone(j) == wpc[j] \in {"scheduled", "l59", "l60", "l63"}

\* C13: an accepted submission returns with the job in the registry, its
\* status initializing and its worker only scheduled; as long as the worker
\* has not run, Get returns initializing with no results; and as long as the
\* work has not come back, Get never returns completed or error (it returns
\* initializing or running, or, after a cancel request, cancelled or NotFound).
C13_SubmitReturnsBeforeWork ==
    \A j \in JobIds :
        /\ NotYetRun(j)
             => /\ get_search_results(j).code = 200
                /\ get_search_results(j).status = "initializing"
                /\ get_search_results(j).results = <<>>
        /\ WorkNotDone(j)
             => get_search_results(j).status \notin {"completed", "error"}
        /\ (resp.op = "submit" /\ resp.code = 200 /\ wpc[next_job] = "scheduled")
             => get_search_results(next_job).status = "initializing"

\* The second submission has returned while the first job is completed and
\* the second has not run.
C13_Witness ==
    /\ resp = [op |-> "submit", code |-> 200, status |-> "started", count |-> 0]
    /\ next_job = 2
    /\ wpc[2] = "scheduled"
    /\ Present(1)
    /\ StatusOf(1) = "completed"
    /\ StatusOf(2) = "initializing"

\* --------------------------------------------------------------- C14
\* C14: for a job id that is not in the registry -- never created, or removed
\* by clear_all_results -- Get returns 404, cancel_job answers 404 without
\* reaching its status test, and the registry and the workers are as before.
C14_UnknownJobIsNotFound ==
    [][\A j \in JobIds :
          ~Present(j)
             => /\ get_search_results(j).code = 404
                /\ ~cancel_job_l223(j)
                /\ cancel_job_404(j)
                     => /\ resp' = [op |-> "cancel", code |-> 404, status |-> "", count |-> 0]
                        /\ active_jobs' = active_jobs
                        /\ cancel' = cancel
                        /\ wpc' = wpc
      ]_vars

\* cancel_job has answered 404 for a job that clear_all_results had removed,
\* while another job is in the registry.
C14_Witness ==
    /\ resp = [op |-> "cancel", code |-> 404, status |-> "", count |-> 0]
    /\ next_job = 2
    /\ ~Present(1)
    /\ Present(2)
    /\ get_search_results(1).code = 404

\* --------------------------------------------------------------- C15
OthersUntouched(c) == \A b \in Conns \ {c} : delivered'[b] = delivered[b]

\* C15: the status event of an attach, the pong answering a ping and the
\* history placeholder answering request_history are written once to the
\* connection concerned -- not at all when its peer is gone -- and to no
\* other connection.
C15_RepliesGoToTheirObserverOnly ==
    [][\A c \in Conns :
          /\ websocket_logs_endpoint_connect(c)
               => /\ delivered'[c] = Append(delivered[c], [id |-> 0, kind |-> "status", job |-> 0])
                  /\ OthersUntouched(c)
          /\ websocket_logs_endpoint_receive(c, "ping")
               => /\ delivered'[c] = IF c \in peer_gone THEN delivered[c]
                                     ELSE Append(delivered[c], [id |-> 0, kind |-> "pong", job |-> 0])
                  /\ OthersUntouched(c)
          /\ websocket_logs_endpoint_receive(c, "request_history")
               => /\ delivered'[c] = IF c \in peer_gone THEN delivered[c]
                                     ELSE Append(delivered[c], [id |-> 0, kind |-> "history", job |-> 0])
                  /\ OthersUntouched(c)
      ]_vars

\* Two observers are attached; the second has been sent its status event, a
\* pong and the history placeholder, the first its status event only.
C15_Witness ==
    /\ active_connections = {1, 2}
    /\ Len(delivered[1]) = 1
    /\ Len(delivered[2]) = 3
    /\ delivered[2][1].kind = "status"
    /\ delivered[2][2].kind = "pong"
    /\ delivered[2][3].kind = "history"

\* --------------------------------------------------------------- C19
\* C19: a send_personal_message whose send_text raises writes nothing,
\* detaches the connection, is not tried again, and returns to its caller
\* something other than what a successful send returns.
C19_FailedSendIsReported ==
    [][\A c \in Conns : \A frame \in Frames :
          (websocket_logs_endpoint_receive(c, frame) /\ SendRaises(c))
             => /\ delivered' = delivered
                /\ c \notin active_connections'
                /\ send_personal_message_returns(TRUE) # send_personal_message_returns(FALSE)
      ]_vars

\* --------------------------------------------------------------- C16
\* C16: a broadcast pass works on the connections attached when it started:
\* whatever attaches or detaches while it is suspended in a send, the pass
\* ends without an exception and every connection it started with, whose
\* peer is there, has been sent the event.
C16_PassCompletesOverItsSnapshot ==
    [][\A t \in 1..Len(consumer) :
          (consumer[t].pc = "pass" /\ consumer'[t].pc = "idle")
             => /\ lost' = lost
                /\ \A c \in consumer[t].start \ peer_gone :
                      \E i \in DOMAIN delivered'[c] : delivered'[c][i] = consumer[t].msg
      ]_vars

\* --------------------------------------------------------------- C17
\* C17: whenever Get returns completed, results and total_count already hold
\* what the work returned.
C17_CompletedIsPublishedWhole ==
    \A j \in DOMAIN active_jobs :
        (get_search_results(j).status = "completed" /\ wpc[j] \in {"l67", "l68"})
           => /\ get_search_results(j).results = table_for(wloc[j].opps)
              /\ get_search_results(j).total_count = Len(wloc[j].opps)

\* --------------------------------------------------------------- C18
\* C18: every job in status error has end_time set, with
\* start_time <= end_time.
C18_ErrorHasEndTime ==
    \A j \in DOMAIN active_jobs :
        active_jobs[j].status = "error"
           => /\ active_jobs[j].end_time # NoTime
              /\ active_jobs[j].start_time <= active_jobs[j].end_time

\* --------------------------------------------------------------- C20
\* setup_logging creates one handler and one consumer task each time it runs
\* past its guard (lines 121-139), so the tasks count the handlers created.
HandlersCreated == Len(consumer)

SomeoneAttached == \E c \in Conns : client_state[c] # "CONNECTING"

\* C20: before the first observer attaches no handler is installed and no
\* consumer runs; from the first attach on -- whoever attaches or leaves
\* afterwards, also when all have left and new observers arrive -- exactly
\* one handler has been installed and exactly one consumer task exists.
C20_OneHandlerOneConsumer ==
    /\ ~SomeoneAttached
         => /\ HandlersCreated = 0
            /\ ~log_handler
            /\ ~logger_setup
    /\ SomeoneAttached
         => /\ HandlersCreated = 1
            /\ log_handler
            /\ logger_setup

\* The first observer has left, the second has arrived and is the only one
\* attached, and the consumer is in a broadcast pass.
C20_Witness ==
    /\ client_state[1] = "DISCONNECTED"
    /\ active_connections = {2}
    /\ Len(consumer) = 1
    /\ consumer[1].pc = "pass"

\* --------------------------------------------------------------- C21
\* A send of the streaming subsystem raised in this step: the welcome or a
\* reply to a connection whose peer is gone, or the broadcast of an event to
\* such a connection.
SendRaisedInReply ==
    \E c \in peer_gone : \E frame \in Frames : websocket_logs_endpoint_receive(c, frame)

SendRaisedInBroadcast ==
    \E t \in 1..Len(consumer) :
        /\ process_log_queue(t)
        /\ consumer'[t].pc = "pass"
        /\ consumer'[t].disconnected \cap peer_gone
              # (IF consumer[t].pc = "pass" THEN consumer[t].disconnected ELSE {}) \cap peer_gone

\* C21: the error the streaming subsystem logs when a send to a connection
\* fails, in a reply or in a broadcast, is never enqueued: such a step puts no
\* event on the queue, and no step of the consumer or of an endpoint ever does.
C21_OwnErrorsNeverEnqueued ==
    [][/\ (SendRaisedInReply \/ SendRaisedInBroadcast)
            => /\ n_enq' = n_enq
               /\ Len(log_queue') <= Len(log_queue)
       /\ n_enq' # n_enq => \E rec \in LogRecords : log_record(rec)
      ]_vars

\* A broadcast found the peer of connection 1 gone and logged the failure;
\* while it was suspended a reply to connection 1 failed too and detached it.
\* The queue is empty.
C21_Witness ==
    /\ Len(consumer) = 1
    /\ consumer[1].pc = "pass"
    /\ 1 \in consumer[1].disconnected \cap peer_gone
    /\ client_state[1] = "CONNECTED"
    /\ 1 \notin active_connections
    /\ log_queue = <<>>
    /\ log_handler

\* --------------------------------------------------------------- C22
\* C22: every job record in the registry has had a worker scheduled for it;
\* a submission answered 503 because the search framework is unavailable
\* leaves no record behind.
C22_EveryRecordHasAWorker ==
    /\ \A j \in DOMAIN active_jobs : wpc[j] # "none"
    /\ (resp.op = "submit" /\ resp.code = 503) => ~Present(next_job)

\* --------------------------------------------------------------- C23
\* C23: once the peer of a status-subscribing connection is gone, so that
\* pushes to it fail, its push loop eventually exits.
C23_StatusLoopEndsWhenPeerGone ==
    \A c \in Conns :
        (status_task[c] \in {"push", "sleep"} /\ c \in peer_gone)
            ~> (status_task[c] = "exited")

\* --------------------------------------------------------------- C24
InQueue(i) == \E k \in DOMAIN log_queue : log_queue[k].id = i

\* Event i has been taken off the queue and handed to broadcast.
Dequeued(i) == n_enq >= i /\ ~InQueue(i)

\* C24: an exception raised while an event is processed does not end the
\* consumer loop: every event that is on the queue after a pass was aborted
\* is eventually dequeued and handed to broadcast, and the consumer is
\* eventually idle again with the queue drained.
C24_ConsumerSurvivesFailedBroadcast ==
    /\ \A i \in 1..MaxEvents : (lost # {} /\ InQueue(i)) ~> Dequeued(i)
    /\ (lost # {}) ~> (log_queue = <<>> /\ \A t \in 1..Len(consumer) : consumer[t].pc = "idle")

\* The pass of event 1 was aborted; event 2 has been dequeued since and
\* written to both attached connections, and the consumer is idle.
C24_Witness ==
    /\ lost = {1}
    /\ n_enq = 2
    /\ log_queue = <<>>
    /\ Len(consumer) = 1
    /\ consumer[1].pc = "idle"
    /\ active_connections = {1, 2}
    /\ \A c \in {1, 2} : \E k \in DOMAIN delivered[c] : delivered[c][k].id = 2
    /\ \A k \in DOMAIN delivered[2] : delivered[2][k].id # 1

\* --------------------------------------------------------------- C25
\* An event written to connection c in this step was dequeued while c was
\* attached: c is in the set the pass started with.
WrittenOnlyToAttachedAtDequeue ==
    \A c \in Conns :
        (Len(delivered'[c]) > Len(delivered[c]) /\ IsLog(delivered'[c][Len(delivered'[c])]))
            => \E t \in 1..Len(consumer') :
                  /\ consumer'[t].pc = "pass"
                  /\ consumer'[t].msg = delivered'[c][Len(delivered'[c])]
                  /\ c \in consumer'[t].start

\* An event dequeued while no connection is attached is written to nobody
\* and the consumer is idle again at once.
DequeuedWithoutObserversIsDropped ==
    \A t \in 1..Len(consumer) :
        (process_log_queue_get(t) /\ active_connections = {})
            => /\ delivered' = delivered
               /\ consumer'[t].pc = "idle"
               /\ Len(log_queue') = Len(log_queue) - 1

\* C25: events are not kept for later observers: an event dequeued while no
\* connection is attached is dropped, and a connection is only ever sent an
\* event that was dequeued while it was attached.
C25_NoEventForLaterObservers ==
    [][WrittenOnlyToAttachedAtDequeue /\ DequeuedWithoutObserversIsDropped]_vars

\* --------------------------------------------------------------- C26
\* The pass of task t ends in this step without an exception.
PassCompletes(t) ==
    /\ consumer[t].pc = "pass"
    /\ consumer'[t].pc = "idle"
    /\ lost' = lost

\* The connections task t notes in this step for removal.
NotedNow(t) ==
    IF consumer'[t].pc = "pass"
    THEN consumer'[t].disconnected \ (IF consumer[t].pc = "pass" THEN consumer[t].disconnected ELSE {})
    ELSE {}

C27_EachRecordEnqueuedOnce ==
    /\ \A i, k \in DOMAIN log_queue : log_queue[i].id = log_queue[k].id => i = k
    /\ \A c \in Conns : \A i, k \in DOMAIN delivered[c] :
          (IsLog(delivered[c][i]) /\ delivered[c][i] = delivered[c][k]) => i = k

\* --------------------------------------------------------------- C28
Contained == {"getMessage", "format", "serialize"}

\* C28: emit never raises into the code that logged the record; when
\* filtering, formatting or serialising the record fails, the failure is
\* printed, nothing is enqueued and the queue is left as it was; a failure
\* of the presentation transform alone still enqueues the event.
C28_InterceptorContainsItsFailures ==
    [][\A rec \in LogRecords : \A fault \in Faults :
          log_record_faulty(rec, fault)
             => /\ emit_exit' # "raised"
                /\ (fault \in Contained /\ ~rec.uvicorn /\ (fault = "getMessage" \/ ~rec.has_ws))
                      => /\ emit_exit' = "printed"
                         /\ log_queue' = log_queue
                         /\ n_enq' = n_enq
                /\ (fault \notin Contained /\ ~emit_skips(rec))
                      => /\ emit_exit' = "returned"
                         /\ Len(log_queue') = Len(log_queue) + 1
      ]_vars

\* One record was enqueued and is still on the queue, in front of an attached
\* observer, and the handling of a later record failed and was printed.
C28_Witness ==
    /\ emit_exit = "printed"
    /\ n_enq = 1
    /\ Len(log_queue) = 1
    /\ active_connections # {}

\* --------------------------------------------------------------- C29
\* How far the one execution of run_deal_search_sync for a job has come.
LineRank(pc) ==
    CASE pc = "none" -> 0
      [] pc = "scheduled" -> 1
      [] pc = "l59" -> 2
      [] pc = "l60" -> 3
      [] pc = "l63" -> 4
      [] pc = "l66" -> 5
      [] pc = "l67" -> 6
      [] pc = "l68" -> 7
      [] pc = "l69" -> 8
      [] pc = "l75" -> 9
      [] pc = "l76" -> 10
      [] OTHER -> 11

\* C29: work is scheduled for a job only by the submission that creates it,
\* under an id no job had before, and once: an execution never starts again,
\* and the work of a job (line 63) is entered at most once.
C29_OneExecutionPerJob ==
    [][wpc' # wpc =>
         \A j \in JobIds :
            wpc'[j] # wpc[j] =>
               /\ wpc'[j] = "scheduled"
                     => /\ wpc[j] = "none"
                        /\ j = next_job + 1
                        /\ next_job' = j
                        /\ ~Present(j)
                        /\ \E n \in 0..MaxCats : start_deal_search(n, MaxJobs)
               /\ LineRank(wpc'[j]) > LineRank(wpc[j])
               /\ wpc'[j] = "l63" => wpc[j] = "l60"
      ]_vars

\* The first job's worker has returned and its record was cleared; the second
\* job, submitted afterwards under a fresh id, is in the work.
C29_Witness ==
    /\ next_job = 2
    /\ wpc[1] = "returned"
    /\ ~Present(1)
    /\ wpc[2] = "l63"
    /\ Present(2)

\* --------------------------------------------------------------- C30
\* manager.disconnect(c) is called in this step: by the finally clause of the
\* endpoint, or by send_personal_message after a reply to c raised.
DetachCalled(c) ==
    \/ websocket_logs_endpoint_disconnect(c)
    \/ c \in peer_gone /\ \E frame \in Frames : websocket_logs_endpoint_receive(c, frame)

\* C30: detaching is idempotent: a detach leaves the connection out of the
\* active set and every other connection in it; detaching a connection that
\* is not attached changes nothing and raises nothing; detaching twice gives
\* the set that detaching once gives.
C30_DetachIsIdempotent ==
    [][/\ \A c \in Conns :
            DetachCalled(c)
               => /\ active_connections' = active_connections \ {c}
                  /\ c \notin active_connections => active_connections' = active_connections
                  /\ disconnect(active_connections', c) = active_connections'
       /\ \A conns \in SUBSET Conns : \A c \in Conns :
            /\ disconnect(disconnect(conns, c), c) = disconnect(conns, c)
            /\ c \notin conns => disconnect(conns, c) = conns
      ]_vars

\* Connection 1 was detached when a reply to it failed; its endpoint has not
\* yet seen the disconnect and will detach it again; connection 2 is attached.
C30_Witness ==
    /\ client_state[1] = "CONNECTED"
    /\ 1 \in peer_gone
    /\ active_connections = {2}
    /\ Len(delivered[1]) >= 1

====
